---- MODULE Spec2Model ----
(***************************************************************************)
(* State-machine model of the start-react-project command line tool.       *)
(*                                                                         *)
(* Two versions of the program are modelled, selected by `variant`:        *)
(*   "git"   : src/index.js (probe for yarn, git init, ignore-file rename, *)
(*             success message)                                            *)
(*   "basic" : src/unnamed/part_001 lines 1-158 (fixed npm installer)      *)
(* Every callback of the promise chain is one action; the environment      *)
(* (typed answer, I/O success or failure, installer exit code) is chosen   *)
(* nondeterministically inside the action that observes it.                *)
(***************************************************************************)
EXTENDS Integers, Sequences, FiniteSets, TLC

VARIABLES
    variant,      \* which version of the program runs
    argv,         \* positional command line arguments (each a path: a sequence of segments)
    yarnOk,       \* environment: does `yarnpkg --version` succeed
    template,     \* bundled template tree: relative path -> file content
    fs0,          \* the target path as it was when the process started
    fs,           \* the target path now: [kind, files]
    pc,           \* position of the single thread of control
    cwd,          \* process working directory
    gitAt,        \* directories in which `git init` has run
    packageJson,  \* manifest object loaded by saveProjectName, in flight to writeJson
    pending,      \* asynchronous operations in flight
    child,        \* the installer child process
    err,          \* rejection value travelling down the promise chain
    out,          \* console output, in order
    exitCode,     \* -1 while the process runs, then its exit code
    answer,       \* answers typed at the overwrite prompt, in order
    started,      \* history: stages started, in order
    done,         \* history: stages completed successfully
    failed        \* history: stages that failed

vars == <<variant, argv, yarnOk, template, fs0, fs, pc, cwd, gitAt, packageJson,
          pending, child, err, out, exitCode, answer, started, done, failed>>

-----------------------------------------------------------------------------
(* Bounds *)

\* installer exit codes range over 0..MaxExitCode
MaxExitCode == 2

-----------------------------------------------------------------------------
(* Paths *)

\* directory the tool is launched from
Cwd0 == <<"home", "work">>

RECURSIVE resolve(_, _)
\* path.resolve(name) relative to the launch directory
resolve(base, segs) ==
    IF segs = <<>> THEN base
    ELSE LET s == Head(segs)
             b == IF s = "." THEN base
                  ELSE IF s = ".."
                       THEN (IF base = <<>> THEN base ELSE SubSeq(base, 1, Len(base) - 1))
                       ELSE Append(base, s)
         IN  resolve(b, Tail(segs))

\* path.basename(root)
basename(p) == IF p = <<>> THEN "" ELSE p[Len(p)]

IsPrefix(p, q) == Len(p) <= Len(q) /\ SubSeq(q, 1, Len(p)) = p

\* const root = path.resolve(name)
Root == resolve(Cwd0, argv[1])

\* const appName = path.basename(root)
AppName == basename(Root)

-----------------------------------------------------------------------------
(* File contents *)

NoFields == [k \in {} |-> ""]

\* a file that is not parseable JSON
Blob(id) == [valid |-> FALSE, indent |-> 0, fields |-> NoFields, raw |-> id]

\* a JSON object file with the given indentation
Json(indent, fields) == [valid |-> TRUE, indent |-> indent, fields |-> fields, raw |-> ""]

NoFiles == [p \in {} |-> Blob("")]

Overlay(f, g) ==
    [p \in DOMAIN f \cup DOMAIN g |-> IF p \in DOMAIN g THEN g[p] ELSE f[p]]

Restrict(f, S) == [p \in S |-> f[p]]

ManifestPath == "package.json"

ManifestChoices == {"none", "garbage", "named", "unnamed", "full"}

ManifestOf(m) ==
    CASE m = "garbage" -> Blob("not json")
      [] m = "named"   -> Json(2, [k \in {"name", "version"} |->
                                      IF k = "name" THEN "template-app" ELSE "1.0.0"])
      [] m = "unnamed" -> Json(2, [k \in {"version"} |-> "1.0.0"])
      [] OTHER         -> Json(2, [k \in {"name", "version", "private"} |->
                                      IF k = "name" THEN "my-app"
                                      ELSE IF k = "version" THEN "0.1.0" ELSE "true"])

MkTemplate(m, ni, gi) ==
    LET dom == {"src/index.js"}
               \cup (IF m # "none" THEN {ManifestPath} ELSE {})
               \cup (IF ni THEN {".npmignore"} ELSE {})
               \cup (IF gi THEN {".gitignore"} ELSE {})
    IN  [p \in dom |->
            CASE p = ManifestPath -> ManifestOf(m)
              [] p = ".npmignore" -> Blob("tpl npmignore")
              [] p = ".gitignore" -> Blob("tpl gitignore")
              [] OTHER            -> Blob("tpl index")]

Templates == {MkTemplate(m, ni, gi) : m \in ManifestChoices, ni \in BOOLEAN, gi \in BOOLEAN}

OldFiles ==
    [p \in {ManifestPath, ".npmignore", "README.md"} |->
        CASE p = ManifestPath -> Json(2, [k \in {"name", "version"} |->
                                             IF k = "name" THEN "old-app" ELSE "0.0.1"])
          [] p = ".npmignore" -> Blob("old npmignore")
          [] OTHER            -> Blob("old readme")]

TargetStates ==
    { [kind |-> "absent", files |-> NoFiles],
      [kind |-> "file",   files |-> NoFiles],
      [kind |-> "dir",    files |-> NoFiles],
      [kind |-> "dir",    files |-> OldFiles] }

Args == { <<"my-app">>, <<"sub", "MyApp">>, <<".">>, <<".bad">>, <<"sub", "..", "http">>,
          <<"..", "node_modules">> }

Answers == {"", "y", "n", "Y", "yes"}

-----------------------------------------------------------------------------
(* Console lines and errors *)

NoErr == [type |-> "none", command |-> <<>>]

Error(type) == [type |-> type, command |-> <<>>]

Line(kind, text) == [kind |-> kind, text |-> text, err |-> NoErr]

ErrLine(e) == [kind |-> "error", text |-> "", err |-> e]

Count(kind) == Cardinality({i \in 1..Len(out) : out[i].kind = kind})

-----------------------------------------------------------------------------
(* validate-npm-package-name, as used by checkAppName *)

StartsWithPeriod == {".bad"}
Blacklisted == {"node_modules"}
HasCapital == {"MyApp"}
CoreModule == {"http"}

nameErrors(name) ==
    (IF name \in StartsWithPeriod THEN <<"name cannot start with a period">> ELSE <<>>)
    \o (IF name \in Blacklisted THEN <<"node_modules is a blacklisted name">> ELSE <<>>)

nameWarnings(name) ==
    (IF name \in HasCapital THEN <<"name can no longer contain capital letters">> ELSE <<>>)
    \o (IF name \in CoreModule THEN <<"http is a core module name">> ELSE <<>>)

\* the result object: empty lists are deleted from it (left undefined)
validateProjectName(name) ==
    LET e == nameErrors(name)
        w == nameWarnings(name)
    IN  [validForNewPackages |-> (Len(e) = 0 /\ Len(w) = 0),
         errors   |-> [defined |-> Len(e) > 0, items |-> e],
         warnings |-> [defined |-> Len(w) > 0, items |-> w]]

printValidationResults(results) ==
    IF results.defined
    THEN [i \in 1..Len(results.items) |-> Line("violation", results.items[i])]
    ELSE <<>>

-----------------------------------------------------------------------------
(* Helpers shared by the actions *)

\* process.exit(code), or the process dying: nothing stays in flight
Exit(code) ==
    /\ pc' = "exited"
    /\ exitCode' = code
    /\ pending' = {}

\* shouldUseYarn(); the basic version fixes useYarn to false
shouldUseYarn == yarnOk

UseYarn == IF variant = "git" THEN shouldUseYarn ELSE FALSE

\* variant of AfterDir: the git callback is left out of the chain
AfterDirSkipsGit == "copy"

\* the chain callback that follows validateDir
AfterDir == IF variant = "git" THEN "git" ELSE "copy"

\* variant of AfterCopy: the manifest-patch callback is left out of the chain
AfterCopySkipsPatch == "install"

\* the chain callback that follows the copy
AfterCopy == IF variant = "git" THEN "rename" ELSE "save"

\* the chain callback that follows a successful install
AfterInstall == IF variant = "git" THEN "success" ELSE "drain"

\* a rejection jumps to the terminal .catch
Reject(stage, e) ==
    /\ err' = e
    /\ failed' = failed \cup {stage}
    /\ pc' = "catch"

-----------------------------------------------------------------------------
Init ==
    /\ variant \in {"git", "basic"}
    /\ argv \in {<<>>} \cup {<<a>> : a \in Args}
    /\ yarnOk \in BOOLEAN
    /\ template \in Templates
    /\ fs0 \in TargetStates
    \* the launch directory exists: a name resolving to it or above it is a directory
    /\ (argv # <<>> /\ IsPrefix(Root, Cwd0)) => (fs0.kind = "dir")
    /\ fs = fs0
    /\ pc = "main"
    /\ cwd = Cwd0
    /\ gitAt = {}
    /\ packageJson = NoFields
    /\ pending = {}
    /\ child = [state |-> "none", argv |-> <<>>, code |-> -1, cwd |-> <<>>]
    /\ err = NoErr
    /\ out = <<>>
    /\ exitCode = -1
    /\ answer = <<>>
    /\ started = <<>>
    /\ done = {}
    /\ failed = {}

-----------------------------------------------------------------------------
(* Top level of the script *)

UsageLines ==
    << Line("usage", "Please specify the project directory:"),
       Line("usage", "<program> <project-directory>"),
       Line("usage", "For example:"),
       Line("usage", "<program> my-react-app") >>

\* typeof projectName === 'undefined' -> usage, exit 1; otherwise createApp(projectName)
Main ==
    /\ pc = "main"
    /\ IF Len(argv) = 0
       THEN /\ out' = out \o UsageLines
            /\ Exit(1)
       ELSE /\ pc' = "checkAppName"
            /\ UNCHANGED <<out, exitCode, pending>>
    /\ UNCHANGED <<variant, argv, yarnOk, template, fs0, fs, cwd, gitAt, packageJson,
                   child, err, answer, started, done, failed>>

-----------------------------------------------------------------------------
(* Stage 1: name validation *)

\* variant of violationLines: the warnings are not printed
violationLinesErrorsOnly(r) == printValidationResults(r.errors)

\* printValidationResults(validationResult.errors);
\* printValidationResults(validationResult.warnings);
violationLines(r) == printValidationResults(r.errors) \o printValidationResults(r.warnings)

CheckAppName ==
    /\ pc = "checkAppName"
    /\ started' = Append(started, "name")
    /\ LET validationResult == validateProjectName(AppName)
       IN  IF ~validationResult.validForNewPackages
           THEN /\ out' = Append(out, Line("naming", AppName))
                             \o violationLines(validationResult)
                /\ failed' = failed \cup {"name"}
                /\ Exit(1)
                /\ UNCHANGED done
           ELSE /\ done' = done \cup {"name"}
                /\ pc' = "validateDir"
                /\ UNCHANGED <<out, failed, exitCode, pending>>
    /\ UNCHANGED <<variant, argv, yarnOk, template, fs0, fs, cwd, gitAt, packageJson,
                   child, err, answer>>

-----------------------------------------------------------------------------
(* Stage 2: directory resolution *)

\* fs.existsSync(dir)
existsSync(f) == f.kind # "absent"

\* variant of isDirectory: `stat.isDirectory` tested without being called
isDirectoryUncalled(f) == TRUE

\* stat.isDirectory()
isDirectory(f) == f.kind = "dir"

\* variant of Declines: `answer && answer !== 'y'`
DeclinesNonEmptyOnly(a) == a # "" /\ a # "y"

\* if (!answer || answer !== 'y') process.exit(1)
Declines(a) == a = "" \/ a # "y"

ValidateDir ==
    /\ pc = "validateDir"
    /\ started' = Append(started, "dir")
    /\ IF ~existsSync(fs)
       THEN /\ pending' = pending \cup {"ensureDir"}
            /\ pc' = "ensureDir"
            /\ UNCHANGED <<out, failed, exitCode>>
       ELSE IF isDirectory(fs)
            THEN /\ pending' = pending \cup {"question"}
                 /\ pc' = "question"
                 /\ UNCHANGED <<out, failed, exitCode>>
            ELSE /\ out' = Append(out, Line("conflict", AppName))
                 /\ failed' = failed \cup {"dir"}
                 /\ Exit(1)
    /\ UNCHANGED <<variant, argv, yarnOk, template, fs0, fs, cwd, gitAt, packageJson,
                   child, err, answer, done>>

\* fs.ensureDir(dir) settles
EnsureDirSettle ==
    /\ pc = "ensureDir"
    /\ "ensureDir" \in pending
    /\ pending' = pending \ {"ensureDir"}
    /\ \E ok \in BOOLEAN :
          IF ok
          THEN /\ fs' = [kind |-> "dir", files |-> NoFiles]
               /\ done' = done \cup {"dir"}
               /\ pc' = AfterDir
               /\ UNCHANGED <<err, failed>>
          ELSE /\ Reject("dir", Error("ensureDir failed"))
               /\ UNCHANGED <<fs, done>>
    /\ UNCHANGED <<variant, argv, yarnOk, template, fs0, cwd, gitAt, packageJson,
                   child, out, exitCode, answer, started>>

\* the rl.question callback runs with the typed line
Question ==
    /\ pc = "question"
    /\ "question" \in pending
    /\ \E a \in Answers :
          /\ answer' = Append(answer, a)
          /\ IF Declines(a)
             THEN /\ failed' = failed \cup {"dir"}
                  /\ Exit(1)
                  /\ UNCHANGED done
             ELSE /\ done' = done \cup {"dir"}
                  /\ pc' = AfterDir
                  /\ pending' = pending \ {"question"}
                  /\ UNCHANGED <<failed, exitCode>>
    /\ UNCHANGED <<variant, argv, yarnOk, template, fs0, fs, cwd, gitAt, packageJson,
                   child, err, out, started>>

-----------------------------------------------------------------------------
(* Version control initialisation (src/index.js only) *)

\* process.chdir(root); initGit(); console.log(...)
ThenGit ==
    /\ pc = "git"
    /\ started' = Append(started, "git")
    /\ \E outcome \in {"ok", "chdir throws", "git init throws"} :
          CASE outcome = "ok" ->
                 /\ cwd' = Root
                 /\ gitAt' = gitAt \cup {cwd'}
                 /\ out' = Append(out, Line("git", "initialised"))
                 /\ done' = done \cup {"git"}
                 /\ pc' = "copy"
                 /\ UNCHANGED <<err, failed>>
            [] outcome = "chdir throws" ->
                 /\ Reject("git", Error("chdir failed"))
                 /\ UNCHANGED <<cwd, gitAt, out, done>>
            [] OTHER ->
                 /\ cwd' = Root
                 /\ Reject("git", Error("git init failed"))
                 /\ UNCHANGED <<gitAt, out, done>>
    /\ UNCHANGED <<variant, argv, yarnOk, template, fs0, fs, packageJson, pending,
                   child, exitCode, answer>>

-----------------------------------------------------------------------------
(* Stage 3: template copy *)

\* variant of copy: only the top-level entries are copied
copyShallow(files, tpl) == Overlay(files, Restrict(tpl, DOMAIN tpl \ {"src/index.js"}))

\* fs.copy(template, root): every template file lands at the same relative path,
\* overwriting what is there
copy(files, tpl) == Overlay(files, tpl)

ThenCopy ==
    /\ pc = "copy"
    /\ started' = Append(started, "copy")
    /\ pending' = pending \cup {"copy"}
    /\ pc' = "copying"
    /\ UNCHANGED <<variant, argv, yarnOk, template, fs0, fs, cwd, gitAt, packageJson,
                   child, err, out, exitCode, answer, done, failed>>

\* fs.copy settles; a failed copy leaves the files copied so far
CopySettle ==
    /\ pc = "copying"
    /\ "copy" \in pending
    /\ pending' = pending \ {"copy"}
    /\ \/ /\ fs' = [fs EXCEPT !.files = copy(fs.files, template)]
          /\ done' = done \cup {"copy"}
          /\ pc' = AfterCopy
          /\ UNCHANGED <<err, failed>>
       \/ \E S \in (SUBSET DOMAIN template) \ {DOMAIN template} :
             /\ fs' = [fs EXCEPT !.files = copy(fs.files, Restrict(template, S))]
             /\ Reject("copy", Error("copy failed"))
             /\ UNCHANGED done
    /\ UNCHANGED <<variant, argv, yarnOk, template, fs0, cwd, gitAt, packageJson,
                   child, out, exitCode, answer, started>>

\* fs.renameSync(from, to): throws when `from` is missing, replaces `to`
renameSync(files, from, to) ==
    [p \in (DOMAIN files \ {from}) \cup {to} |-> IF p = to THEN files[from] ELSE files[p]]

\* the callback nested on the copy: .npmignore -> .gitignore (src/index.js only)
ThenRename ==
    /\ pc = "rename"
    /\ started' = Append(started, "rename")
    /\ IF ".npmignore" \in DOMAIN fs.files
       THEN /\ fs' = [fs EXCEPT !.files = renameSync(fs.files, ".npmignore", ".gitignore")]
            /\ done' = done \cup {"rename"}
            /\ pc' = "save"
            /\ UNCHANGED <<err, failed>>
       ELSE /\ Reject("rename", Error("ENOENT rename"))
            /\ UNCHANGED <<fs, done>>
    /\ UNCHANGED <<variant, argv, yarnOk, template, fs0, cwd, gitAt, packageJson,
                   pending, child, out, exitCode, answer>>

-----------------------------------------------------------------------------
(* Stage 4: manifest patch *)

\* variant of patchName: a fresh object holding only the name is written
patchNameDropsFields(obj, name) == [k \in {"name"} |-> name]

\* packageJson.name = name
patchName(obj, name) ==
    [k \in DOMAIN obj \cup {"name"} |-> IF k = "name" THEN name ELSE obj[k]]

\* saveProjectName: require(filePath) throws on a missing or malformed manifest
ThenSave ==
    /\ pc = "save"
    /\ started' = Append(started, "patch")
    /\ IF ManifestPath \in DOMAIN fs.files /\ fs.files[ManifestPath].valid
       THEN /\ packageJson' = patchName(fs.files[ManifestPath].fields, AppName)
            /\ pending' = pending \cup {"writeJson"}
            /\ pc' = "writing"
            /\ UNCHANGED <<err, failed>>
       ELSE /\ Reject("patch", Error("cannot load package.json"))
            /\ UNCHANGED <<packageJson, pending>>
    /\ UNCHANGED <<variant, argv, yarnOk, template, fs0, fs, cwd, gitAt,
                   child, out, exitCode, answer, done>>

\* fs.writeJson(filePath, packageJson, {spaces: 4}) settles; a failed write may
\* have truncated the file
WriteSettle ==
    /\ pc = "writing"
    /\ "writeJson" \in pending
    /\ pending' = pending \ {"writeJson"}
    /\ \/ /\ fs' = [fs EXCEPT !.files[ManifestPath] = Json(4, packageJson)]
          /\ done' = done \cup {"patch"}
          /\ pc' = "install"
          /\ UNCHANGED <<err, failed>>
       \/ /\ \E truncated \in BOOLEAN :
                fs' = IF truncated
                      THEN [fs EXCEPT !.files[ManifestPath] = Blob("")]
                      ELSE fs
          /\ Reject("patch", Error("writeJson failed"))
          /\ UNCHANGED done
    /\ UNCHANGED <<variant, argv, yarnOk, template, fs0, cwd, gitAt, packageJson,
                   child, out, exitCode, answer, started>>

-----------------------------------------------------------------------------
(* Stage 5: dependency installer *)

NoArgs == [defined |-> FALSE, items |-> <<>>]

\* let command; let args; if (useYarn) {command = 'yarn'} else {command = 'npm'; args = ['install']}
installCommand(useYarn) ==
    IF useYarn
    THEN [command |-> "yarn", args |-> NoArgs]
    ELSE [command |-> "npm", args |-> [defined |-> TRUE, items |-> <<"install">>]]

RECURSIVE join(_, _)
\* args.join(sep)
join(items, sep) ==
    IF items = <<>> THEN <<>>
    ELSE IF Len(items) = 1 THEN items
    ELSE <<Head(items), sep>> \o join(Tail(items), sep)

\* the command line spawn(command, args) runs: the command word and its arguments
spawnLine(c) == join(<<c.command>> \o (IF c.args.defined THEN c.args.items ELSE <<>>), " ")

\* `${command} ${args.join(' ')}`
commandField(c) == <<c.command, " ">> \o join(c.args.items, " ")

\* variant of installFailed: the exit code is not looked at
installNeverFails(code) == FALSE

\* if (code !== 0)
installFailed(code) == code # 0

ThenInstall ==
    /\ pc = "install"
    /\ started' = Append(started, "install")
    /\ out' = IF variant = "git"
              THEN out \o << Line("created", AppName), Line("installing", "") >>
              ELSE out
    \* the basic version changes directory inside installDependencies
    /\ cwd' = IF variant = "git" THEN cwd ELSE Root
    /\ child' = [state |-> "running", argv |-> spawnLine(installCommand(UseYarn)),
                 code |-> -1, cwd |-> cwd']
    /\ pending' = pending \cup {"child"}
    /\ pc' = "installing"
    /\ UNCHANGED <<variant, argv, yarnOk, template, fs0, fs, gitAt, packageJson,
                   err, exitCode, answer, done, failed>>

\* child.on('close', code => ...)
ChildClose ==
    /\ pc = "installing"
    /\ child.state = "running"
    /\ \E code \in 0..MaxExitCode :
          /\ child' = [child EXCEPT !.state = "closed", !.code = code]
          /\ LET c == installCommand(UseYarn)
             IN  IF installFailed(code)
                 THEN IF ~c.args.defined
                      THEN \* args.join throws inside the event handler: uncaught exception
                           /\ out' = Append(out, ErrLine(Error("uncaught TypeError")))
                           /\ failed' = failed \cup {"install"}
                           /\ Exit(1)
                           /\ UNCHANGED <<err, done>>
                      ELSE /\ Reject("install",
                                     [type |-> "installer", command |-> commandField(c)])
                           /\ pending' = pending \ {"child"}
                           /\ UNCHANGED <<out, exitCode, done>>
                 ELSE /\ done' = done \cup {"install"}
                      /\ pc' = AfterInstall
                      /\ pending' = pending \ {"child"}
                      /\ UNCHANGED <<out, exitCode, err, failed>>
    /\ UNCHANGED <<variant, argv, yarnOk, template, fs0, fs, cwd, gitAt, packageJson,
                   answer, started>>

\* showSuccessMessage(root, appName, useYarn) (src/index.js only)
ThenSuccess ==
    /\ pc = "success"
    /\ started' = Append(started, "success")
    /\ out' = Append(out, Line("success", AppName))
    /\ done' = done \cup {"success"}
    /\ pc' = "drain"
    /\ UNCHANGED <<variant, argv, yarnOk, template, fs0, fs, cwd, gitAt, packageJson,
                   pending, child, err, exitCode, answer, failed>>

-----------------------------------------------------------------------------
(* End of the chain *)

\* .catch(function (err) { console.log(banner); console.error(err); })
Catch ==
    /\ pc = "catch"
    /\ out' = out \o << Line("banner", ""), ErrLine(err) >>
    /\ pc' = "drain"
    /\ UNCHANGED <<variant, argv, yarnOk, template, fs0, fs, cwd, gitAt, packageJson,
                   pending, child, err, exitCode, answer, started, done, failed>>

\* nothing is left to run: the process ends with the implicit exit code
ProcessEnd ==
    /\ pc = "drain"
    /\ pending = {}
    /\ Exit(0)
    /\ UNCHANGED <<variant, argv, yarnOk, template, fs0, fs, cwd, gitAt, packageJson,
                   child, err, out, answer, started, done, failed>>

-----------------------------------------------------------------------------
Next ==
    \/ Main
    \/ CheckAppName
    \/ ValidateDir
    \/ EnsureDirSettle
    \/ Question
    \/ ThenGit
    \/ ThenCopy
    \/ CopySettle
    \/ ThenRename
    \/ ThenSave
    \/ WriteSettle
    \/ ThenInstall
    \/ ChildClose
    \/ ThenSuccess
    \/ Catch
    \/ ProcessEnd

Spec == Init /\ [][Next]_vars

-----------------------------------------------------------------------------
(* Properties *)

Range(seq) == {seq[i] : i \in 1..Len(seq)}

Exited == pc = "exited"

\* the five stages every version of createApp runs, in pipeline order
CoreStages == <<"name", "dir", "copy", "patch", "install">>

CoreStarted == SelectSeq(started, LAMBDA s : s \in Range(CoreStages))

\* what comes after the directory resolver
LaterStages == {"git", "copy", "rename", "patch", "install", "success"}

\* the terminal handler has printed its banner followed by the rejection value
Reported(e) ==
    \E i \in 1..(Len(out) - 1) : out[i].kind = "banner" /\ out[i + 1] = ErrLine(e)

\* the stages run in pipeline order, each after its predecessor succeeded, and
\* nothing is started after a failure
StagesInOrder ==
    /\ IsPrefix(CoreStarted, CoreStages)
    /\ \A i \in 2..Len(started) : started[i - 1] \in done
    /\ Cardinality(failed) <= 1
    /\ failed # {} => started[Len(started)] \in failed

\* failures that end the process on the spot instead of rejecting the chain
EndsProcessDirectly ==
    \/ "name" \in failed
    \/ "dir" \in failed /\ fs0.kind # "absent"
    \/ "install" \in failed /\ UseYarn

\* C1 as claimed: the stages run in the fixed order, each only after the previous
\* one succeeded; after a failure no later stage starts and the terminal error
\* handler has reported the failure exactly once by the time the process ends.
C1_Original ==
    /\ StagesInOrder
    /\ (Exited /\ failed # {}) => Count("banner") = 1

\* C1 amended: the stages run in the fixed order, each only after the previous one
\* succeeded, and after a failure no later stage starts; the terminal error handler
\* reports at most once: exactly once, with the rejection value, when the failing
\* stage rejects the chain, and not at all when the failure ends the process on the
\* spot (invalid name, directory conflict, declined overwrite, exception thrown in
\* the installer's close handler), in which case the exit code is 1.
C1_StagesInOrder ==
    /\ StagesInOrder
    /\ Count("banner") <= 1
    /\ (Exited /\ failed # {}) =>
          IF EndsProcessDirectly
          THEN Count("banner") = 0 /\ exitCode = 1
          ELSE Count("banner") = 1 /\ Reported(err) /\ err # NoErr

C1_Witness ==
    /\ Exited
    /\ failed = {"copy"}
    /\ started = <<"name", "dir", "copy">>
    /\ Count("banner") = 1

\* C2 as claimed: whenever the installer child has closed with a non-zero exit code,
\* the chain is rejected with a value whose command field is the command line that
\* was spawned, and by the end of the run the terminal handler has printed it.
C2_Claim ==
    (child.state = "closed" /\ child.code # 0) =>
        /\ err.type = "installer"
        /\ err.command = child.argv
        /\ Exited => Reported(err)

\* C3: when the target exists as a directory and the line typed at the prompt is not
\* exactly "y", the process has exited with code 1 with the target untouched and no
\* later stage started; the resolver stage succeeds for an existing directory only on "y".
C3_DeclinedOverwrite ==
    (fs0.kind = "dir" /\ answer # <<>>) =>
        /\ Len(answer) = 1
        /\ IF answer[1] # "y"
           THEN /\ Exited
                /\ exitCode = 1
                /\ fs = fs0
                /\ Range(started) \cap LaterStages = {}
                /\ gitAt = {}
                /\ child.state = "none"
           ELSE "dir" \in done

C3_Witness ==
    /\ fs0.kind = "dir"
    /\ fs0.files # NoFiles
    /\ answer = <<"">>
    /\ Exited

\* C4: when the target exists and is not a directory, once the resolver has run the
\* process has exited with code 1, the target is as it was (no directory created),
\* and no copy, patch or installer step has started.
C4_FileConflict ==
    (fs0.kind = "file" /\ "dir" \in Range(started)) =>
        /\ Exited
        /\ exitCode = 1
        /\ fs = fs0
        /\ started = <<"name", "dir">>
        /\ pending = {}
        /\ child.state = "none"

C4_Witness ==
    /\ fs0.kind = "file"
    /\ Exited
    /\ Count("conflict") = 1

\* a run that ended with every stage successful
SuccessfulRun ==
    /\ Exited
    /\ exitCode = 0
    /\ failed = {}
    /\ "install" \in done

\* C5 as claimed: after a fully successful run into a path that did not exist, the
\* target is a directory holding every template file at the same relative path,
\* identical to the template's for every file other than the manifest.
C5_Original ==
    (fs0.kind = "absent" /\ SuccessfulRun) =>
        /\ fs.kind = "dir"
        /\ \A p \in DOMAIN template :
              /\ p \in DOMAIN fs.files
              /\ p # ManifestPath => fs.files[p] = template[p]

\* where a template file ends up in the target
Landed(p) == IF variant = "git" /\ p = ".npmignore" THEN ".gitignore" ELSE p

\* C5 amended: after a fully successful run into a path that did not exist, the
\* target is a directory holding every template file, identical to the template's
\* for every file other than the manifest, at the same relative path, except that
\* in the version-control version the template's .npmignore is found at .gitignore
\* (no longer at .npmignore), where it replaces the template's own .gitignore.
C5_TemplateMaterialized ==
    (fs0.kind = "absent" /\ SuccessfulRun) =>
        /\ fs.kind = "dir"
        /\ \A p \in DOMAIN template :
              /\ Landed(p) \in DOMAIN fs.files
              /\ (p # ManifestPath /\ ~(variant = "git" /\ p = ".gitignore"))
                    => fs.files[Landed(p)] = template[p]
        /\ variant = "git" => ".npmignore" \notin DOMAIN fs.files

C5_Witness ==
    /\ fs0.kind = "absent"
    /\ SuccessfulRun
    /\ variant = "git"
    /\ ".gitignore" \in DOMAIN template
    /\ fs.files[".gitignore"] = template[".npmignore"]

\* C6: once the manifest patch has succeeded (the template holding a manifest), the
\* target's package.json is a JSON object whose name is the base name of the resolved
\* target path and whose other fields are exactly those of the template manifest,
\* with the template's values.
C6_ManifestPatched ==
    ("patch" \in done /\ ManifestPath \in DOMAIN template) =>
        LET t == template[ManifestPath].fields
            m == fs.files[ManifestPath]
        IN  /\ m.valid
            /\ DOMAIN m.fields = DOMAIN t \cup {"name"}
            /\ m.fields["name"] = AppName
            /\ \A k \in DOMAIN t \ {"name"} : m.fields[k] = t[k]

C6_Witness ==
    /\ "patch" \in done
    /\ ManifestPath \in DOMAIN template
    /\ "private" \in DOMAIN template[ManifestPath].fields
    /\ template[ManifestPath].fields["name"] = "my-app"
    /\ argv = << <<".">> >>
    /\ fs.files[ManifestPath].fields["name"] = "work"
    /\ fs.files[ManifestPath].fields["private"] = "true"

\* the four ways out that the interface documents with exit code 1
DocumentedExit1 ==
    \/ Count("usage") > 0
    \/ Count("naming") > 0
    \/ Count("conflict") > 0
    \/ answer # <<>> /\ answer[Len(answer)] # "y"

\* C7 as claimed: the process ends with exit code 1 exactly on the paths missing
\* argument, invalid name, directory conflict and declined overwrite; when the
\* terminal handler has logged a failure the process ends with exit code 0.
C7_Claim ==
    Exited =>
        /\ exitCode = 1 <=> DocumentedExit1
        /\ Count("banner") > 0 => exitCode = 0

\* C8: once the name check has run, a rejected name has produced at least one
\* violation line and exit code 1 with the resolver never started and nothing
\* changed on disk; an accepted name has produced no violation line and control is
\* at, or past, the directory resolver.
C8_NameValidation ==
    "name" \in Range(started) =>
        IF nameErrors(AppName) # <<>> \/ nameWarnings(AppName) # <<>>
        THEN /\ Count("violation") >= 1
             /\ Exited
             /\ exitCode = 1
             /\ started = <<"name">>
             /\ fs = fs0
             /\ cwd = Cwd0
             /\ gitAt = {}
        ELSE /\ Count("violation") = 0
             /\ pc = "validateDir" \/ "dir" \in Range(started)

C8_Witness ==
    /\ Exited
    /\ argv # <<>>
    /\ AppName = "MyApp"
    /\ Count("violation") = 1
    /\ exitCode = 1

\* C9: at most one asynchronous operation is in flight; while the installer child
\* runs it is the only one, the parent sits waiting for its close event, and the
\* only step taken is the delivery of that event; the success message is on the
\* console only if the child has closed with exit code 0.
C9_SingleOutstanding ==
    /\ [](/\ Cardinality(pending) <= 1
          /\ child.state = "running" => (pc = "installing" /\ pending = {"child"})
          /\ Count("success") > 0 => (child.state = "closed" /\ child.code = 0))
    /\ [][child.state = "running" =>
             (child'.state = "closed" /\ started' = started /\ fs' = fs)]_vars

C9_Witness ==
    /\ Count("success") = 1
    /\ child.state = "closed"
    /\ child.code = 0
    /\ child.argv = <<"yarn">>

\* C10: in the version-control version the copy starts only after git init has run
\* in the target root (the working directory having been changed to it), the rename
\* starts only after the copy succeeded and the patch only after the rename
\* succeeded; when the init or the rename fails, neither the patch nor the
\* installer is ever started and the terminal handler reports the failure.
C10_GitOrdering ==
    variant = "git" =>
        /\ "copy" \in Range(started) => ("git" \in done /\ cwd = Root /\ gitAt = {Root})
        /\ "rename" \in Range(started) => "copy" \in done
        /\ "patch" \in Range(started) => "rename" \in done
        /\ failed \cap {"git", "rename"} # {} =>
              /\ Range(started) \cap {"patch", "install", "success"} = {}
              /\ child.state = "none"
              /\ pc \in {"catch", "drain", "exited"}
              /\ pc \in {"drain", "exited"} => (Count("banner") = 1 /\ Reported(err))

C10_Witness ==
    /\ variant = "git"
    /\ failed = {"rename"}
    /\ {"git", "copy"} \subseteq done
    /\ gitAt = {Root}
    /\ Exited
    /\ Count("banner") = 1

====
